---------------------------- MODULE Spec2Model ----------------------------
(***************************************************************************)
(* Byte-level model of the two records declared in                         *)
(* Sources/CPipeline/include/cpipeline_vtab.h:                             *)
(*                                                                         *)
(*   struct cpipeline_sqlite3_vtab {                                       *)
(*       sqlite3_vtab base;                                                *)
(*       void *virtual_table_module_ptr;                                   *)
(*   };                                                                    *)
(*   struct cpipeline_sqlite3_vtab_cursor {                                *)
(*       sqlite3_vtab_cursor base;                                         *)
(*       void *virtual_table_cursor_ptr;                                   *)
(*   };                                                                    *)
(*                                                                         *)
(* The header holds declarations only.  The model gives them the meaning   *)
(* the C language gives them: members are laid out in declaration order,   *)
(* each at the next offset that satisfies its alignment; an object is a    *)
(* run of bytes in memory; a member access is a load or a store of the     *)
(* member's bytes at the object's address plus the member's offset.        *)
(* Pointers are sequences of bytes (their object representation), so       *)
(* "bit-identical" is equality of byte sequences.                          *)
(*                                                                         *)
(* Two specifications share the state.  Spec lets a program allocate and   *)
(* free instances and assign their members in any order.  Lifecycle is     *)
(* the protocol of section 3 of the specification (create/connect, open,   *)
(* callbacks, close, disconnect); the code that follows it is not in the   *)
(* header.                                                                 *)
(***************************************************************************)
EXTENDS Naturals, Sequences, FiniteSets

VARIABLES
    abi,        \* the data model of the build: "ILP32" or "LP64"
    mem,        \* the arena: address -> byte
    live,       \* the allocated instances: records [kind, addr]
    stored,     \* per live instance: the reference last assigned to its
                \* opaque member, or Indeterminate when none was yet
    last,       \* Lifecycle: the last read of an opaque member by a callback
    ops         \* the number of operations performed

vars == <<abi, mem, live, stored, last, ops>>

---------------------------------------------------------------------------
(* Bounds of the model *)

\* Instances that may be allocated at the same time.
MaxHandles == 2

\* External objects (VirtualTableModule / VirtualTableCursor) whose
\* references may be stored.
NumObjects == 2

\* Operations in one behaviour.
MaxOps == 5

---------------------------------------------------------------------------
(* The data models, and the scalar types *)

ABIs == {"ILP32", "LP64"}

\* sizeof of the scalar types in each data model: "ptr" is any object
\* pointer (void *, char *, sqlite3_vtab *, ...), "int" is int.
DataModel ==
    [ILP32 |-> [ptr |-> 4, int |-> 4],
     LP64  |-> [ptr |-> 8, int |-> 4]]

ScalarTypes == {"ptr", "int"}

StructTypes == {"sqlite3_vtab", "sqlite3_vtab_cursor",
                "cpipeline_sqlite3_vtab", "cpipeline_sqlite3_vtab_cursor"}

---------------------------------------------------------------------------
(* The declarations *)

\* sqlite3.h: struct sqlite3_vtab { const sqlite3_module *pModule;
\*                                 int nRef; char *zErrMsg; };
sqlite3_vtab ==
    << [name |-> "pModule", type |-> "ptr"],
       [name |-> "nRef",    type |-> "int"],
       [name |-> "zErrMsg", type |-> "ptr"] >>

\* sqlite3.h: struct sqlite3_vtab_cursor { sqlite3_vtab *pVtab; };
sqlite3_vtab_cursor ==
    << [name |-> "pVtab", type |-> "ptr"] >>

\* The declaration with the opaque member first.
cpipeline_sqlite3_vtab_swapped ==
    << [name |-> "virtual_table_module_ptr", type |-> "ptr"],
       [name |-> "base", type |-> "sqlite3_vtab"] >>

\* The declaration with the opaque member an int: int virtual_table_module_ptr;
cpipeline_sqlite3_vtab_narrow ==
    << [name |-> "base", type |-> "sqlite3_vtab"],
       [name |-> "virtual_table_module_ptr", type |-> "int"] >>

\* The declaration with a member before base: int tag; sqlite3_vtab base; ...
cpipeline_sqlite3_vtab_tagged ==
    << [name |-> "tag", type |-> "int"],
       [name |-> "base", type |-> "sqlite3_vtab"],
       [name |-> "virtual_table_module_ptr", type |-> "ptr"] >>

\* The declaration with base held by pointer: sqlite3_vtab *base;
cpipeline_sqlite3_vtab_by_pointer ==
    << [name |-> "base", type |-> "ptr"],
       [name |-> "virtual_table_module_ptr", type |-> "ptr"] >>

cpipeline_sqlite3_vtab ==
    << [name |-> "base", type |-> "sqlite3_vtab"],
       [name |-> "virtual_table_module_ptr", type |-> "ptr"] >>

\* The declaration with the opaque member first.
cpipeline_sqlite3_vtab_cursor_swapped ==
    << [name |-> "virtual_table_cursor_ptr", type |-> "ptr"],
       [name |-> "base", type |-> "sqlite3_vtab_cursor"] >>

cpipeline_sqlite3_vtab_cursor ==
    << [name |-> "base", type |-> "sqlite3_vtab_cursor"],
       [name |-> "virtual_table_cursor_ptr", type |-> "ptr"] >>

\* The members of the structure type named T.
Fields(T) ==
    CASE T = "sqlite3_vtab" -> sqlite3_vtab
      [] T = "sqlite3_vtab_cursor" -> sqlite3_vtab_cursor
      [] T = "cpipeline_sqlite3_vtab" -> cpipeline_sqlite3_vtab
      [] T = "cpipeline_sqlite3_vtab_cursor" -> cpipeline_sqlite3_vtab_cursor

\* The position of member f among the members of T.
IndexOf(T, f) == CHOOSE i \in 1..Len(Fields(T)) : Fields(T)[i].name = f

TypeOf(T, f) == Fields(T)[IndexOf(T, f)].type

---------------------------------------------------------------------------
(* Layout: C11 6.7.2.1, as the ABIs Swift targets implement it.  dm is the *)
(* data model, an element of ABIs.                                         *)

Max(S) == CHOOSE x \in S : \A y \in S : y <= x

AlignUp(n, a) == ((n + a - 1) \div a) * a

RECURSIVE AlignIn(_, _)
AlignIn(dm, t) ==
    IF t \in ScalarTypes
    THEN DataModel[dm][t]
    ELSE Max({AlignIn(dm, Fields(t)[i].type) : i \in 1..Len(Fields(t))})

\* Every member at offset 0: the layout of a union.
UnionOffsetAt(dm, T, i) == 0

RECURSIVE SizeIn(_, _)
RECURSIVE OffsetAt(_, _, _)

\* The offset of the i-th member of T: 0 for the first, and for the others
\* the end of the member before, rounded up to the member's alignment.
OffsetAt(dm, T, i) ==
    IF i = 1
    THEN 0
    ELSE AlignUp(OffsetAt(dm, T, i - 1) + SizeIn(dm, Fields(T)[i - 1].type),
                 AlignIn(dm, Fields(T)[i].type))

\* sizeof: the end of the last member, rounded up to the alignment of T.
SizeIn(dm, t) ==
    IF t \in ScalarTypes
    THEN DataModel[dm][t]
    ELSE LET n == Len(Fields(t))
         IN  AlignUp(OffsetAt(dm, t, n) + SizeIn(dm, Fields(t)[n].type),
                     AlignIn(dm, t))

\* The layout of every type in every data model, computed once.
Layout ==
    [dm \in ABIs |->
        [size   |-> [t \in ScalarTypes \cup StructTypes |-> SizeIn(dm, t)],
         align  |-> [t \in ScalarTypes \cup StructTypes |-> AlignIn(dm, t)],
         offset |-> [T \in StructTypes |->
                        [i \in 1..Len(Fields(T)) |-> OffsetAt(dm, T, i)]]]]

\* sizeof(t), _Alignof(t) and offsetof(T, f) in the build's data model
SizeOf(t) == Layout[abi].size[t]

AlignOf(t) == Layout[abi].align[t]

OffsetOf(T, f) == Layout[abi].offset[T][IndexOf(T, f)]

\* sizeof(void *)
PtrSize == SizeOf("ptr")


---------------------------------------------------------------------------
(* Values *)

\* A pointer as its bytes, least significant first: lo in the lowest byte,
\* hi in the highest.
Pointer(lo, hi) ==
    [i \in 1..PtrSize |-> IF i = 1 THEN lo ELSE IF i = PtrSize THEN hi ELSE 0]

\* The null pointer: all bytes zero.
NULL == Pointer(0, 0)

\* The address of external object k.  The objects differ in the lowest and
\* in the highest byte, so a pointer cut to fewer bytes is no longer the
\* same pointer.
Ref(k) == Pointer(16 * k, k)

RefValues == {NULL} \cup {Ref(k) : k \in 1..NumObjects}

\* What `stored` holds for an instance whose opaque member was never
\* assigned: its bytes are whatever the allocation left there.
Indeterminate == << >>

\* An address of the arena as a pointer.
EncodePtr(a) == Pointer(a, 0)

\* An int as its bytes, least significant first.
EncodeInt(v) == [i \in 1..SizeOf("int") |-> (v \div (256 ^ (i - 1))) % 256]

\* The values SQLite writes into a member of a base record: for a pointer
\* member an address of SQLite's own, for nRef a count.
SqliteValues(t) ==
    IF t = "ptr"
    THEN {Pointer(8, 127)}
    ELSE {EncodeInt(513)}

\* The conversion of a value to a scalar of n bytes, as C converts between
\* a pointer and an integer type or back: the low n bytes, zero-extended.
Convert(bs, n) == [i \in 1..n |-> IF i <= Len(bs) THEN bs[i] ELSE 0]

---------------------------------------------------------------------------
(* Memory *)

\* The arena holds MaxHandles instances of the larger structure.
HeapSize == MaxHandles * SizeOf("cpipeline_sqlite3_vtab")

Addresses == 0..(HeapSize - 1)

\* The bytes bs written from address a on, one after the other; a byte
\* outside the arena is not written.
RECURSIVE StoreFrom(_, _, _, _)
StoreFrom(m, a, bs, i) ==
    IF i > Len(bs)
    THEN m
    ELSE StoreFrom(IF (a + i - 1) \in Addresses
                   THEN [m EXCEPT ![a + i - 1] = bs[i]]
                   ELSE m,
                   a, bs, i + 1)

StoreBytes(m, a, bs) == StoreFrom(m, a, bs, 1)

\* The n bytes from address a on; a byte outside the arena reads as 255.
LoadBytes(m, a, n) ==
    [i \in 1..n |-> IF (a + i - 1) \in Addresses THEN m[a + i - 1] ELSE 255]

\* p->f = v, for p a pointer to a T
StoreMember(m, p, T, f, v) ==
    StoreBytes(m, p + OffsetOf(T, f), Convert(v, SizeOf(TypeOf(T, f))))

\* p->f, for p a pointer to a T
LoadMember(m, p, T, f) ==
    LoadBytes(m, p + OffsetOf(T, f), SizeOf(TypeOf(T, f)))

\* memset(p, 0, sizeof(T))
ZeroFill(m, p, T) == StoreBytes(m, p, [i \in 1..SizeOf(T) |-> 0])

---------------------------------------------------------------------------
(* Instances *)

Kinds == {"vtab", "cursor"}

StructOf(kind) ==
    IF kind = "vtab" THEN "cpipeline_sqlite3_vtab"
                     ELSE "cpipeline_sqlite3_vtab_cursor"

OpaqueMember(kind) ==
    IF kind = "vtab" THEN "virtual_table_module_ptr"
                     ELSE "virtual_table_cursor_ptr"

\* The record SQLite takes its pointer to point to.
BaseType(kind) ==
    IF kind = "vtab" THEN "sqlite3_vtab" ELSE "sqlite3_vtab_cursor"

BaseMembers(kind) ==
    {Fields(BaseType(kind))[i].name : i \in 1..Len(Fields(BaseType(kind)))}

NoHandle == [kind |-> "none", addr |-> 0]

\* &h->base
BasePtr(h) == h.addr + OffsetOf(StructOf(h.kind), "base")

\* (cpipeline_sqlite3_vtab *)p, (cpipeline_sqlite3_vtab_cursor *)p: a cast
\* between pointer types keeps the address.
Reinterpret(p) == p

\* p->virtual_table_module_ptr, p->virtual_table_cursor_ptr, for p a pointer
\* to an instance of `kind`.
LoadOpaque(m, p, kind) ==
    Convert(LoadMember(m, p, StructOf(kind), OpaqueMember(kind)), PtrSize)

\* pVtab->f, pCur->f, for h's base record as SQLite reaches it.
LoadBase(m, h, f) == LoadMember(m, BasePtr(h), BaseType(h.kind), f)

\* Whether a new instance of `kind` fits at address a: aligned, inside the
\* arena, and clear of every live instance.
Fits(kind, a) ==
    /\ a % AlignOf(StructOf(kind)) = 0
    /\ a + SizeOf(StructOf(kind)) <= HeapSize
    /\ \A h \in live :
          \/ a + SizeOf(StructOf(kind)) <= h.addr
          \/ h.addr + SizeOf(StructOf(h.kind)) <= a

\* The lowest address from a on at which a new instance of `kind` fits, or
\* HeapSize when it fits nowhere.
RECURSIVE FirstFit(_, _)
FirstFit(kind, a) ==
    IF a + SizeOf(StructOf(kind)) > HeapSize
    THEN HeapSize
    ELSE IF Fits(kind, a)
         THEN a
         ELSE FirstFit(kind, a + AlignOf(StructOf(kind)))

\* Whether the arena has room for a new instance of `kind`.
HasRoom(kind) == FirstFit(kind, 0) < HeapSize

\* The instance malloc(sizeof(T)) returns: at the lowest address that fits.
Fresh(kind) == [kind |-> kind, addr |-> FirstFit(kind, 0)]

---------------------------------------------------------------------------
(* Spec: the operations C gives the two records *)

\* One more operation, while the budget lasts.
Step == ops < MaxOps /\ ops' = ops + 1

\* No instance is allocated; the arena holds bytes that belong to no value
\* the model writes (170, 0xAA).
Init ==
    /\ abi \in ABIs
    /\ mem = [a \in Addresses |-> 170]
    /\ live = {}
    /\ stored = << >>
    /\ last = [op |-> "none", h |-> NoHandle, val |-> << >>, attached |-> << >>,
               wasLive |-> FALSE]
    /\ ops = 0

\* h = malloc(sizeof(T)): the bytes are left as they were.
Alloc(kind) ==
    /\ Step
    /\ Cardinality(live) < MaxHandles
    /\ HasRoom(kind)
    /\ \E h \in {Fresh(kind)} :
          /\ live' = live \cup {h}
          /\ stored' = [x \in live \cup {h} |->
                          IF x \in live THEN stored[x] ELSE Indeterminate]
    /\ UNCHANGED <<abi, mem, last>>

\* free(h): the bytes are left as they were.
Free(h) ==
    /\ Step
    /\ h \in live
    /\ live' = live \ {h}
    /\ stored' = [x \in live \ {h} |-> stored[x]]
    /\ UNCHANGED <<abi, mem, last>>

\* A store that refuses the null reference.
StoreRefChecked(h, r) ==
    /\ Step
    /\ h \in live
    /\ r # NULL
    /\ stored' = [stored EXCEPT ![h] = r]
    /\ mem' = StoreMember(mem, h.addr, StructOf(h.kind), OpaqueMember(h.kind), r)
    /\ UNCHANGED <<abi, live, last>>

\* h->virtual_table_module_ptr = r;  h->virtual_table_cursor_ptr = r;
StoreRef(h, r) ==
    /\ Step
    /\ h \in live
    /\ stored' = [stored EXCEPT ![h] = r]
    /\ mem' = StoreMember(mem, h.addr, StructOf(h.kind), OpaqueMember(h.kind), r)
    /\ UNCHANGED <<abi, live, last>>

\* SQLite's write of a member of the base record, through its pointer to
\* the base record: pVtab->zErrMsg = v, pVtab->nRef = v, pCur->pVtab = v
WriteBase(h, f, v) ==
    /\ Step
    /\ h \in live
    /\ f \in BaseMembers(h.kind)
    /\ UNCHANGED <<abi, live, stored, last>>
    /\ mem' = StoreMember(mem, BasePtr(h), BaseType(h.kind), f, v)

Next ==
    \/ \E kind \in Kinds : Alloc(kind)
    \/ \E h \in live : Free(h)
    \/ \E h \in live : \E r \in RefValues : StoreRef(h, r)
    \/ \E h \in live : \E f \in BaseMembers(h.kind) :
          \E v \in SqliteValues(TypeOf(BaseType(h.kind), f)) : WriteBase(h, f, v)

Spec == Init /\ [][Next]_vars

---------------------------------------------------------------------------
(* Lifecycle: the protocol of the specification's section 3.  SQLite calls *)
(* the module's create/connect, which allocates an instance, attaches the  *)
(* reference to the external object and returns the instance as a pointer  *)
(* to its base record; SQLite fills in the base record; the callbacks      *)
(* SQLite then makes recover the reference from that pointer; disconnect/  *)
(* destroy and close recover it a last time and free the instance.         *)

\* What a callback handed h's base pointer reads.
ReadOf(h) ==
    [op |-> "read", h |-> h,
     val |-> LoadOpaque(mem, Reinterpret(BasePtr(h)), h.kind),
     attached |-> stored[h],
     wasLive |-> h \in live]

\* SQLite's part of create/connect, on the pointer p the module returned:
\* memset(pVtab, 0, sizeof(*pVtab)); pVtab->pModule = pModule;
SqliteInitVtab(m, p) ==
    StoreMember(ZeroFill(m, p, "sqlite3_vtab"), p, "sqlite3_vtab", "pModule",
                Pointer(8, 127))

\* create/connect that returns the instance without attaching the reference.
XCreateUnattached(k) ==
    /\ Step
    /\ Cardinality(live) < MaxHandles
    /\ HasRoom("vtab")
    /\ \E h \in {Fresh("vtab")} :
          /\ live' = live \cup {h}
          /\ stored' = [x \in live \cup {h} |->
                          IF x \in live THEN stored[x] ELSE Ref(k)]
          /\ mem' = SqliteInitVtab(mem, BasePtr(h))
    /\ UNCHANGED <<abi, last>>

\* xCreate / xConnect for external module object k, and SQLite's part after
\* it returns.
XCreate(k) ==
    /\ Step
    /\ Cardinality(live) < MaxHandles
    /\ HasRoom("vtab")
    /\ \E h \in {Fresh("vtab")} :
          /\ live' = live \cup {h}
          /\ stored' = [x \in live \cup {h} |->
                          IF x \in live THEN stored[x] ELSE Ref(k)]
          /\ mem' = SqliteInitVtab(
                       StoreMember(mem, h.addr, StructOf("vtab"),
                                   OpaqueMember("vtab"), Ref(k)),
                       BasePtr(h))
    /\ UNCHANGED <<abi, last>>

\* xOpen on virtual table v for external cursor object k, and SQLite's part
\* after it returns: pCur->pVtab = pVtab;
XOpen(v, k) ==
    /\ Step
    /\ v \in live /\ v.kind = "vtab"
    /\ Cardinality(live) < MaxHandles
    /\ HasRoom("cursor")
    /\ \E c \in {Fresh("cursor")} :
          /\ live' = live \cup {c}
          /\ stored' = [x \in live \cup {c} |->
                          IF x \in live THEN stored[x] ELSE Ref(k)]
          /\ mem' = StoreMember(
                       StoreMember(mem, c.addr, StructOf("cursor"),
                                   OpaqueMember("cursor"), Ref(k)),
                       BasePtr(c), "sqlite3_vtab_cursor", "pVtab",
                       EncodePtr(BasePtr(v)))
    /\ last' = ReadOf(v)
    /\ UNCHANGED abi

\* The open cursors of virtual table v: those whose pVtab points to it.
CursorsOf(v) ==
    {c \in live : /\ c.kind = "cursor"
                  /\ LoadBase(mem, c, "pVtab") = EncodePtr(BasePtr(v))}

\* Any other callback on a live instance: xBestIndex, xFilter, xNext, xEof,
\* xColumn, xRowid, ...
Callback(h) ==
    /\ Step
    /\ h \in live
    /\ last' = ReadOf(h)
    /\ UNCHANGED <<abi, mem, live, stored>>

\* SQLite's later writes to a virtual table's base record: zErrMsg, nRef.
SqliteWrite(v, f, x) ==
    /\ v \in live /\ v.kind = "vtab"
    /\ f \in {"nRef", "zErrMsg"}
    /\ WriteBase(v, f, x)

\* xClose: releases the external cursor object and frees the instance.
XClose(c) ==
    /\ Step
    /\ c \in live /\ c.kind = "cursor"
    /\ last' = ReadOf(c)
    /\ live' = live \ {c}
    /\ stored' = [x \in live \ {c} |-> stored[x]]
    /\ UNCHANGED <<abi, mem>>

\* xDisconnect / xDestroy: SQLite calls it once the table's cursors are
\* closed; releases the external module object and frees the instance.
XDisconnect(v) ==
    /\ Step
    /\ v \in live /\ v.kind = "vtab"
    /\ CursorsOf(v) = {}
    /\ last' = ReadOf(v)
    /\ live' = live \ {v}
    /\ stored' = [x \in live \ {v} |-> stored[x]]
    /\ UNCHANGED <<abi, mem>>

LifecycleNext ==
    \/ \E k \in 1..NumObjects : XCreate(k)
    \/ \E v \in live : \E k \in 1..NumObjects : XOpen(v, k)
    \/ \E h \in live : Callback(h)
    \/ \E v \in live : \E f \in {"nRef", "zErrMsg"} :
          \E x \in SqliteValues(TypeOf("sqlite3_vtab", f)) : SqliteWrite(v, f, x)
    \/ \E c \in live : XClose(c)
    \/ \E v \in live : XDisconnect(v)

Lifecycle == Init /\ [][LifecycleNext]_vars

---------------------------------------------------------------------------
(* Properties *)

\* The live instances of a kind.
LiveOf(kind) == {h \in live : h.kind = kind}

\* The members of h's base record, as SQLite reads them.
BaseValue(m, h) == [f \in BaseMembers(h.kind) |-> LoadBase(m, h, f)]

\* h->virtual_table_module_ptr, h->virtual_table_cursor_ptr
OpaqueValue(m, h) == LoadOpaque(m, h.addr, h.kind)

\* C1: in every instance of cpipeline_sqlite3_vtab, `base` is the first
\* member and lies at byte offset 0, so the address of the instance is the
\* address of its `base`.
VtabBaseAtOffsetZero ==
    \A h \in LiveOf("vtab") :
        /\ IndexOf("cpipeline_sqlite3_vtab", "base") = 1
        /\ OffsetOf("cpipeline_sqlite3_vtab", "base") = 0
        /\ BasePtr(h) = h.addr

\* A virtual table instance at an address other than 0, in each data model.
VtabBaseWitness ==
    \E h \in LiveOf("vtab") : h.addr > 0 /\ abi = "LP64"

\* C2: in every instance of cpipeline_sqlite3_vtab_cursor, `base` is the
\* first member and lies at byte offset 0, so the address of the instance
\* is the address of its `base`.
CursorBaseAtOffsetZero ==
    \A h \in LiveOf("cursor") :
        /\ IndexOf("cpipeline_sqlite3_vtab_cursor", "base") = 1
        /\ OffsetOf("cpipeline_sqlite3_vtab_cursor", "base") = 0
        /\ BasePtr(h) = h.addr

\* A cursor instance at an address other than 0.
CursorBaseWitness ==
    \E h \in LiveOf("cursor") : h.addr > 0 /\ abi = "ILP32"

\* C3: a non-null reference stored into virtual_table_module_ptr or
\* virtual_table_cursor_ptr is read back from that member bit-identical, as
\* long as the member was not written again.
RoundTrip ==
    \A h \in live :
        stored[h] \notin {Indeterminate, NULL} => OpaqueValue(mem, h) = stored[h]

\* A virtual table and a cursor each hold a non-null reference of 8 bytes.
RoundTripWitness ==
    /\ abi = "LP64"
    /\ \E h \in LiveOf("vtab") : stored[h] = Ref(NumObjects)
    /\ \E c \in LiveOf("cursor") : stored[c] \in RefValues \ {NULL}

\* C4: from a pointer to the `base` of an instance whose opaque member was
\* set to r, reinterpreted as a pointer to the instance, the opaque member
\* reads r: the reference of that instance and of no other.
RecoverThroughBase ==
    \A h \in live :
        stored[h] # Indeterminate =>
            /\ LoadOpaque(mem, Reinterpret(BasePtr(h)), h.kind) = stored[h]
            /\ \A g \in live \ {h} :
                  stored[g] \notin {Indeterminate, stored[h]} =>
                      LoadOpaque(mem, Reinterpret(BasePtr(h)), h.kind) # stored[g]

\* Two instances hold different non-null references, and SQLite has written
\* the base record of one of them.
RecoverWitness ==
    \E h \in live : \E g \in live \ {h} :
        /\ stored[h] \in RefValues \ {NULL}
        /\ stored[g] \in RefValues \ {NULL, stored[h]}
        /\ \E f \in BaseMembers(h.kind) : LoadBase(mem, h, f) = Pointer(8, 127)

\* C5: sizeof(cpipeline_sqlite3_vtab) >= sizeof(sqlite3_vtab) + sizeof(void *),
\* and in every instance the bytes of `base` and the bytes of
\* virtual_table_module_ptr are disjoint: the opaque member starts at an
\* offset >= sizeof(sqlite3_vtab).
SizeAndNoOverlap ==
    \A h \in LiveOf("vtab") :
        LET S  == "cpipeline_sqlite3_vtab"
            bo == OffsetOf(S, "base")
            oo == OffsetOf(S, "virtual_table_module_ptr")
        IN  /\ SizeOf(S) >= SizeOf("sqlite3_vtab") + SizeOf("ptr")
            /\ oo >= SizeOf("sqlite3_vtab")
            /\ {h.addr + bo + i : i \in 0..(SizeOf(TypeOf(S, "base")) - 1)}
                 \cap {h.addr + oo + i :
                         i \in 0..(SizeOf(TypeOf(S, "virtual_table_module_ptr")) - 1)}
               = {}

\* A virtual table instance in the data model where sqlite3_vtab has padding
\* (its size exceeds the sum of its members' sizes).
SizeWitness ==
    /\ LiveOf("vtab") # {}
    /\ SizeOf("sqlite3_vtab") > SizeOf("ptr") + SizeOf("int") + SizeOf("ptr")

\* C6: a store into the opaque member is never refused: on every live
\* instance every reference, the null reference included, can be stored,
\* and a stored null reference is what the member then holds.
StoreNeverRejected ==
    \A h \in live :
        /\ ops < MaxOps => \A r \in RefValues : ENABLED StoreRef(h, r)
        /\ stored[h] = NULL => OpaqueValue(mem, h) = NULL

\* The null reference was stored over bytes that were not zero, and more
\* stores may follow.
StoreNullWitness ==
    \E h \in live :
        /\ stored[h] = NULL
        /\ ops < MaxOps
        /\ \E a \in Addresses : mem[a] = 170

\* C7: every read of the opaque member by a callback is of an instance that
\* is allocated at that moment and returns the reference attached when the
\* instance was allocated; an instance SQLite holds always has its reference
\* attached.
CallbacksReadAttached ==
    /\ last.op = "read" =>
          /\ last.wasLive
          /\ last.attached \in RefValues \ {NULL}
          /\ last.val = last.attached
    /\ \A h \in live :
          /\ stored[h] \in RefValues \ {NULL}
          /\ LoadOpaque(mem, Reinterpret(BasePtr(h)), h.kind) = stored[h]

\* xClose has read its cursor's reference and freed the cursor, while the
\* virtual table is still connected.
CallbackWitness ==
    /\ last.op = "read"
    /\ last.h.kind = "cursor"
    /\ last.h \notin live
    /\ last.val = Ref(NumObjects)
    /\ LiveOf("vtab") # {}

\* C8: a write to the opaque member leaves every member of `base`
\* unchanged, a write to a member of `base` leaves the opaque member and
\* the other members of `base` unchanged, and a write to one instance
\* leaves every other instance unchanged.
FieldIndependence ==
    [][ /\ \A g \in live : \A r \in RefValues :
              StoreRef(g, r) =>
                  /\ \A h \in live : BaseValue(mem', h) = BaseValue(mem, h)
                  /\ \A h \in live \ {g} : OpaqueValue(mem', h) = OpaqueValue(mem, h)
        /\ \A g \in live : \A f \in BaseMembers(g.kind) :
              \A v \in SqliteValues(TypeOf(BaseType(g.kind), f)) :
                  WriteBase(g, f, v) =>
                      /\ \A h \in live : OpaqueValue(mem', h) = OpaqueValue(mem, h)
                      /\ \A h \in live \ {g} : BaseValue(mem', h) = BaseValue(mem, h)
                      /\ \A f2 \in BaseMembers(g.kind) \ {f} :
                            LoadBase(mem', g, f2) = LoadBase(mem, g, f2)
      ]_vars

\* Two instances each hold a reference, and SQLite has written the base
\* record of the one at the lower address.
IndependenceWitness ==
    \E h \in LiveOf("vtab") : \E g \in live \ {h} :
        /\ h.addr < g.addr
        /\ stored[h] \in RefValues
        /\ stored[g] \in RefValues
        /\ LoadBase(mem, h, "nRef") = EncodeInt(513)

=============================================================================
